---- MODULE Spec2Model ----
(***************************************************************************)
(* A model of the Telegram ETL repository: the raw loader                  *)
(* (scripts/load_raw_to_postgres.py), the image enrichment                 *)
(* (scripts/run_yolo_enrichment.py), the Dagster job (repo.py) and the     *)
(* reporting API (analytics_api/), and the scraper                         *)
(* (scripts/telegram_scraper.py).  Each subsystem has its own              *)
(* specification over the variables it reads and writes.                   *)
(***************************************************************************)
EXTENDS Integers, Sequences, FiniteSets, TLC

VARIABLES
    tree,        \* data/raw/telegram_messages: tree[i] is the content of the i-th file of the walk
    treeVer,     \* number of times a file of the tree was rewritten on disk
    messages,    \* raw.messages: the committed rows, in insertion order
    loader,      \* loader[p]: the state of loader process p
    lastRun,     \* the latest loader run whose COMMIT took effect
    images,      \* data/raw/images: images[i] is the i-th image file of the walk
    imagesVer,   \* number of times an image file was replaced on disk
    detections,  \* raw_enrichment.image_detections: the committed rows, in insertion order
    enrich,      \* the state of the enrichment process
    completed,   \* images whose processing has ended in a commit, in any run so far
    repeated,    \* images handed to the model although already in completed
    jobRun,      \* the run of full_telegram_etl_job: "none", "started", "success", "failure"
    ops,         \* ops[s]: the state of the op of stage s in the run
    proc,        \* proc[s]: what the subprocess of stage s did in the run
    started,     \* the stages of the run in the order their ops started
    dbt,         \* the dbt build (my_dbt_assets) since the run was launched
    dbReachable, \* whether PostgreSQL accepts connections
    fct_messages,          \* tg_data_warehouse.fct_messages
    dim_channels,          \* tg_data_warehouse.dim_channels
    fct_image_detections,  \* tg_data_warehouse.fct_image_detections
    request,     \* the latest request to the reporting API
    response,    \* its response
    executed,    \* the crud queries run to answer it
    feed,         \* feed[c]: the messages client.iter_messages yields for channel c, newest first
    feedVer,      \* number of times a message was edited on Telegram
    messageFiles, \* the scraper's JSON files on disk: content by path <<date, channel, message id>>
    imageFiles,   \* the scraper's image files on disk: content by path <<date, message id>>
    scraper,      \* scraper[c]: the state of scrape_channel for channel c
    scrapeRun     \* main() of the scraper

loaderVars == <<tree, treeVer, messages, loader, lastRun>>
enrichVars == <<images, imagesVer, detections, enrich, completed, repeated>>

pipeVars == <<jobRun, ops, proc, started, dbt, dbReachable>>

warehouseVars == <<fct_messages, dim_channels, fct_image_detections>>
apiVars == <<warehouseVars, request, response, executed>>

scraperVars == <<feed, feedVer, messageFiles, imageFiles, scraper, scrapeRun>>

vars == <<loaderVars, enrichVars, pipeVars, apiVars, scraperVars>>
notLoader == <<enrichVars, pipeVars, apiVars, scraperVars>>
notEnrich == <<loaderVars, pipeVars, apiVars, scraperVars>>
notPipe == <<loaderVars, enrichVars, apiVars, scraperVars>>
notApi == <<loaderVars, enrichVars, pipeVars, scraperVars>>
notScraper == <<loaderVars, enrichVars, pipeVars, apiVars>>

(***************************************************************************)
(* Bounds                                                                  *)
(***************************************************************************)
MaxFiles == 3
MaxChanges == 1
MaxImages == 2
MaxMessages == 2
MaxDetections == 2
MaxLimit == 2
MaxPosts == 2

(***************************************************************************)
(* JSON values and documents                                               *)
(***************************************************************************)
Null == [t |-> "null"]
JInt(n) == [t |-> "int", n |-> n]
JStr(s) == [t |-> "str", s |-> s]

\* The documents a file of the tree can hold.  "malformed" is not JSON at all;
\* "noid" is an object without the key 'id'; "zeroid" carries "id": 0;
\* "good" is a scraped message; "strid" carries a non-numeric string as id.
\* body distinguishes two payloads of the same kind (a rewritten file).
Kinds == {"malformed", "noid", "zeroid", "good", "strid"}
Doc(k, b) == [kind |-> k, body |-> b]
ScrapedDocs == {Doc(k, 0) : k \in Kinds}
NewDocs == {Doc(k, 1) : k \in Kinds}

\* a loader that lets a malformed document through as an empty object
JsonDecodeErrorMissed(doc) == FALSE

\* json.load(f): raises JSONDecodeError on a malformed document
JsonDecodeError(doc) == doc.kind = "malformed"

\* data.get('id')
DataGetId(doc) ==
    CASE doc.kind = "noid" -> Null
      [] doc.kind = "zeroid" -> JInt(0)
      [] doc.kind = "good" -> JInt(1 + doc.body)
      [] doc.kind = "strid" -> JStr("abc")
      [] OTHER -> Null

\* data.get('peer_id', {}).get('channel_id')
DataGetChannelId(doc) == IF doc.kind = "noid" THEN Null ELSE JInt(7)

\* Python truthiness of a JSON value: None, 0 and "" are falsy
Truthy(v) ==
    CASE v.t = "null" -> FALSE
      [] v.t = "int" -> v.n # 0
      [] v.t = "str" -> v.s # ""
      [] OTHER -> TRUE

\* `if not message_id:` (load_raw_to_postgres.py line 99)
NoMessageId(message_id) == ~Truthy(message_id)

(***************************************************************************)
(* raw.messages and the INSERT statement                                   *)
(***************************************************************************)
Row(message_id, channel_id, raw_data, file_path) ==
    [message_id |-> message_id, channel_id |-> channel_id,
     raw_data |-> raw_data, file_path |-> file_path]

\* message_id BIGINT NOT NULL, channel_id BIGINT: the server rejects a value
\* that is no integer (DataError)
ColumnTypeError(row) ==
    \/ row.message_id.t # "int"
    \/ row.channel_id.t \notin {"int", "null"}

SeqRange(s) == {s[i] : i \in 1..Len(s)}
Paths(rows) == {r.file_path : r \in SeqRange(rows)}

Procs == {1, 2}

\* file_path TEXT NOT NULL UNIQUE with ON CONFLICT (file_path) DO NOTHING:
\* the row conflicts with a committed row or a row of the own transaction
\* an INSERT without the conflict clause taking effect
ConflictsNever(p, file_path) == FALSE

Conflicts(p, file_path) ==
    file_path \in Paths(messages) \cup Paths(loader[p].pending)

\* a table without the unique index: no INSERT waits for another transaction
BlockedNever(p, file_path) == FALSE

\* an uncommitted row of another transaction holds the key: the INSERT waits
\* until that transaction ends
Blocked(p, file_path) ==
    \E q \in Procs \ {p} : file_path \in Paths(loader[q].pending)

(***************************************************************************)
(* The loader process                                                      *)
(***************************************************************************)
NoRun == [ver |-> -1, stored |-> {}]

IdleLoader ==
    [pc |-> "idle", idx |-> 0, pending |-> <<>>, aborted |-> FALSE,
     loaded_count |-> 0, skipped_count |-> 0,
     insertedFiles |-> {}, skippedFiles |-> {}, errorLog |-> <<>>,
     warnLog |-> <<>>, committed |-> FALSE, startVer |-> 0,
     startTable |-> <<>>, base |-> NoRun]

\* main(): connect, setup_database, and enter process_and_load_data
LoaderStart(p) ==
    /\ loader[p].pc \in {"idle", "done"}
    /\ loader' = [loader EXCEPT ![p] =
          [IdleLoader EXCEPT !.pc = "walk", !.idx = 1,
                             !.startVer = treeVer, !.startTable = messages,
                             !.base = lastRun]]
    /\ UNCHANGED <<tree, treeVer, messages, lastRun>>
    /\ UNCHANGED notLoader

\* what one iteration of the walk does to the process, for the file at idx
FileOutcome(p) ==
    LET me == loader[p]
        file_path == me.idx
        doc == tree[file_path]
        message_id == DataGetId(doc)
        row == Row(message_id, DataGetChannelId(doc), doc, file_path)
        next == [me EXCEPT !.idx = me.idx + 1]
    IN  IF JsonDecodeError(doc)
        THEN [next EXCEPT !.errorLog = Append(me.errorLog, file_path)]
        ELSE IF NoMessageId(message_id)
        THEN [next EXCEPT !.warnLog = Append(me.warnLog, file_path)]
        ELSE IF me.aborted
        \* InFailedSqlTransaction: caught by `except Exception`
        THEN [next EXCEPT !.errorLog = Append(me.errorLog, file_path)]
        ELSE IF ColumnTypeError(row)
        \* the statement fails: the server aborts the transaction and drops its rows
        THEN [next EXCEPT !.errorLog = Append(me.errorLog, file_path),
                          !.aborted = TRUE, !.pending = <<>>]
        ELSE IF Conflicts(p, file_path)
        THEN [next EXCEPT !.skipped_count = me.skipped_count + 1,
                          !.skippedFiles = me.skippedFiles \cup {file_path}]
        ELSE [next EXCEPT !.pending = Append(me.pending, row),
                          !.loaded_count = me.loaded_count + 1,
                          !.insertedFiles = me.insertedFiles \cup {file_path}]

\* whether the iteration reaches cur.execute with a live transaction
ReachesInsert(p) ==
    LET doc == tree[loader[p].idx]
    IN  /\ ~JsonDecodeError(doc)
        /\ ~NoMessageId(DataGetId(doc))
        /\ ~loader[p].aborted

\* one iteration of `for filename in files` (lines 88-115)
ProcessFile(p) ==
    /\ loader[p].pc = "walk"
    /\ loader[p].idx <= Len(tree)
    /\ ReachesInsert(p) => ~Blocked(p, loader[p].idx)
    /\ loader' = [loader EXCEPT ![p] = FileOutcome(p)]
    /\ UNCHANGED <<tree, treeVer, messages, lastRun>>
    /\ UNCHANGED notLoader

\* a loader that refreshes the table with the rows of the run
LoaderCommitRefreshing(p) ==
    /\ loader[p].pc = "walk"
    /\ loader[p].idx > Len(tree)
    /\ messages' = loader[p].pending
    /\ loader' = [loader EXCEPT ![p].pc = "done", ![p].pending = <<>>,
                                ![p].committed = ~loader[p].aborted]
    /\ UNCHANGED <<tree, treeVer, lastRun>>
    /\ UNCHANGED notLoader

\* conn.commit() (line 117): COMMIT of a failed transaction is a ROLLBACK
LoaderCommit(p) ==
    /\ loader[p].pc = "walk"
    /\ loader[p].idx > Len(tree)
    /\ messages' = IF loader[p].aborted THEN messages
                   ELSE messages \o loader[p].pending
    /\ loader' = [loader EXCEPT ![p].pc = "done", ![p].pending = <<>>,
                                ![p].committed = ~loader[p].aborted]
    /\ lastRun' = IF loader[p].aborted THEN lastRun
                  ELSE [ver |-> loader[p].startVer,
                        stored |-> loader[p].insertedFiles]
    /\ UNCHANGED <<tree, treeVer>>
    /\ UNCHANGED notLoader

\* a file of the tree is rewritten on disk with another document
ChangeFile ==
    /\ treeVer < MaxChanges
    /\ \E i \in 1..Len(tree), doc \in NewDocs :
          /\ doc # tree[i]
          /\ tree' = [tree EXCEPT ![i] = doc]
    /\ treeVer' = treeVer + 1
    /\ UNCHANGED <<messages, loader, lastRun>>
    /\ UNCHANGED notLoader

\* the files of the walk whose name ends with .json (line 89), in walk order
Trees == UNION {[1..n -> ScrapedDocs] : n \in 0..MaxFiles}

LoaderInit ==
    /\ tree \in Trees
    /\ treeVer = 0
    /\ messages = <<>>
    /\ loader = [p \in Procs |-> IdleLoader]
    /\ lastRun = NoRun

\* runs of the loader one after another, the tree changing in between or meanwhile
LoaderNext ==
    \/ LoaderStart(1)
    \/ ProcessFile(1)
    \/ LoaderCommit(1)
    \/ ChangeFile


\* two loader processes over one unchanged tree
ConcNext ==
    \/ \E p \in Procs : LoaderStart(p)
    \/ \E p \in Procs : ProcessFile(p)
    \/ \E p \in Procs : LoaderCommit(p)


(***************************************************************************)
(* The image enrichment (scripts/run_yolo_enrichment.py)                   *)
(***************************************************************************)
\* One detection of the model: class, confidence and box.  A box with a NaN
\* coordinate serialises to text that the JSONB column rejects.
Det(c, b) == [class_name |-> c, confidence |-> 9, bbox |-> b]
NaNBox == "NaN"

\* The image files: "text" has a file name that is no number; the model
\* raises on "corrupt"; the others are what the model returns for the image.
ImageKinds == {"text", "corrupt", "none", "one", "two", "same", "nanbox"}
Image(k, b) == [kind |-> k, body |-> b]
ScrapedImages == {Image(k, 0) : k \in ImageKinds}
NewImages == {Image(k, 1) : k \in ImageKinds}

\* int(os.path.splitext(filename)[0]) raises ValueError
FilenameValueError(img) == img.kind = "text"

\* YOLO_MODEL(image_path) raises
ModelRaises(img) == img.kind = "corrupt"

\* the boxes of the results of YOLO_MODEL(image_path), as detection_data
Detections(img) ==
    CASE img.kind = "one" -> <<Det("a", "box1")>>
      [] img.kind = "two" -> <<Det("a", "box1"), Det("b", "box2")>>
      [] img.kind = "same" -> <<Det("a", "box1"), Det("a", "box1")>>
      [] img.kind = "nanbox" -> <<Det("a", "box1"), Det("b", NaNBox)>>
      [] OTHER -> <<>>

DetRow(message_id, image_path, det) ==
    [message_id |-> message_id, image_path |-> image_path,
     detected_object_class |-> det.class_name,
     confidence_score |-> det.confidence, bounding_box |-> det.bbox]

\* bounding_box JSONB: the server rejects text that is no JSON
JsonbError(row) == row.bounding_box = NaNBox

DetKey(row) == <<row.image_path, row.detected_object_class, row.bounding_box>>

\* UNIQUE(image_path, detected_object_class, bounding_box) with ON CONFLICT DO NOTHING
DetConflicts(row, pending) ==
    DetKey(row) \in {DetKey(r) : r \in SeqRange(detections) \cup SeqRange(pending)}

\* the loop `for det in detections: cur.execute(insert_query, ...)`, from the
\* k-th detection on: the rows of the open transaction and the row count, or
\* the failure of a statement
RECURSIVE InsertDetections(_, _, _, _, _)
InsertDetections(dets, k, image_path, pending, count) ==
    IF k > Len(dets) THEN [raised |-> FALSE, pending |-> pending, count |-> count]
    ELSE LET row == DetRow(image_path, image_path, dets[k])
         IN  IF JsonbError(row)
             THEN [raised |-> TRUE, pending |-> <<>>, count |-> count]
             ELSE IF DetConflicts(row, pending)
             THEN InsertDetections(dets, k + 1, image_path, pending, count)
             ELSE InsertDetections(dets, k + 1, image_path,
                                   Append(pending, row), count + 1)

\* get_processed_images: SELECT DISTINCT image_path FROM raw_enrichment.image_detections
GetProcessedImages == {r.image_path : r \in SeqRange(detections)}

IdleEnrich ==
    [pc |-> "idle", idx |-> 0, processed_images |-> {},
     new_detections_count |-> 0, errorLog |-> <<>>, modelCalls |-> {},
     startTable |-> <<>>]

\* main(): connect, setup_database, and enter run_enrichment (lines 82-84)
EnrichStart ==
    /\ enrich.pc \in {"idle", "done"}
    /\ enrich' = [IdleEnrich EXCEPT !.pc = "walk", !.idx = 1,
                                    !.processed_images = GetProcessedImages,
                                    !.startTable = detections]
    /\ UNCHANGED <<images, imagesVer, detections, completed, repeated>>
    /\ UNCHANGED notEnrich

\* one iteration of `for filename in files` over an image already processed
SkipImage ==
    /\ enrich.pc = "walk"
    /\ enrich.idx <= Len(images)
    /\ enrich.idx \in enrich.processed_images
    /\ enrich' = [enrich EXCEPT !.idx = enrich.idx + 1]
    /\ UNCHANGED <<images, imagesVer, detections, completed, repeated>>
    /\ UNCHANGED notEnrich

\* an iteration whose except block does not roll back: the rows inserted
\* before the failing statement stay and are stored
ProcessImageWithoutRollback ==
    /\ enrich.pc = "walk"
    /\ enrich.idx <= Len(images)
    /\ enrich.idx \notin enrich.processed_images
    /\ LET image_path == enrich.idx
           img == images[image_path]
           dets == Detections(img)
           next == [enrich EXCEPT !.idx = enrich.idx + 1]
           ins == InsertDetections(dets, 1, image_path, <<>>,
                                   enrich.new_detections_count)
           failing == {k \in 1..Len(dets) : JsonbError(DetRow(image_path, image_path, dets[k]))}
           before == SubSeq(dets, 1, (CHOOSE k \in failing : \A j \in failing : k <= j) - 1)
       IN  IF FilenameValueError(img)
           THEN /\ enrich' = [next EXCEPT !.errorLog = Append(enrich.errorLog, image_path)]
                /\ UNCHANGED <<detections, completed, repeated>>
           ELSE IF ModelRaises(img)
           THEN /\ enrich' = [next EXCEPT !.errorLog = Append(enrich.errorLog, image_path),
                                          !.modelCalls = enrich.modelCalls \cup {image_path}]
                /\ repeated' = repeated \cup ({image_path} \cap completed)
                /\ UNCHANGED <<detections, completed>>
           ELSE IF ins.raised
           THEN /\ enrich' = [next EXCEPT !.errorLog = Append(enrich.errorLog, image_path),
                                          !.modelCalls = enrich.modelCalls \cup {image_path},
                                          !.new_detections_count = ins.count]
                /\ detections' = detections \o
                       InsertDetections(before, 1, image_path, <<>>, 0).pending
                /\ repeated' = repeated \cup ({image_path} \cap completed)
                /\ UNCHANGED completed
           ELSE /\ enrich' = [next EXCEPT !.modelCalls = enrich.modelCalls \cup {image_path},
                                          !.new_detections_count = ins.count,
                                          !.processed_images =
                                              enrich.processed_images \cup {image_path}]
                /\ detections' = detections \o ins.pending
                /\ completed' = completed \cup {image_path}
                /\ repeated' = repeated \cup ({image_path} \cap completed)
    /\ UNCHANGED <<images, imagesVer>>
    /\ UNCHANGED notEnrich

\* one iteration over a new image: the try block with its commit, or the
\* except block with its rollback (lines 101-141)
ProcessImage ==
    /\ enrich.pc = "walk"
    /\ enrich.idx <= Len(images)
    /\ enrich.idx \notin enrich.processed_images
    /\ LET image_path == enrich.idx
           img == images[image_path]
           next == [enrich EXCEPT !.idx = enrich.idx + 1]
           ins == InsertDetections(Detections(img), 1, image_path, <<>>,
                                   enrich.new_detections_count)
       IN  IF FilenameValueError(img)
           THEN /\ enrich' = [next EXCEPT !.errorLog = Append(enrich.errorLog, image_path)]
                /\ UNCHANGED <<detections, completed, repeated>>
           ELSE IF ModelRaises(img)
           THEN /\ enrich' = [next EXCEPT !.errorLog = Append(enrich.errorLog, image_path),
                                          !.modelCalls = enrich.modelCalls \cup {image_path}]
                /\ repeated' = repeated \cup ({image_path} \cap completed)
                /\ UNCHANGED <<detections, completed>>
           ELSE IF ins.raised
           \* new_detections_count keeps what the statements before the failure added
           THEN /\ enrich' = [next EXCEPT !.errorLog = Append(enrich.errorLog, image_path),
                                          !.modelCalls = enrich.modelCalls \cup {image_path},
                                          !.new_detections_count = ins.count]
                /\ repeated' = repeated \cup ({image_path} \cap completed)
                /\ UNCHANGED <<detections, completed>>
           ELSE /\ enrich' = [next EXCEPT !.modelCalls = enrich.modelCalls \cup {image_path},
                                          !.new_detections_count = ins.count,
                                          !.processed_images =
                                              enrich.processed_images \cup {image_path}]
                /\ detections' = detections \o ins.pending
                /\ completed' = completed \cup {image_path}
                /\ repeated' = repeated \cup ({image_path} \cap completed)
    /\ UNCHANGED <<images, imagesVer>>
    /\ UNCHANGED notEnrich

\* the walk is over: the final log line, and main() closes the connection
EnrichFinish ==
    /\ enrich.pc = "walk"
    /\ enrich.idx > Len(images)
    /\ enrich' = [enrich EXCEPT !.pc = "done"]
    /\ UNCHANGED <<images, imagesVer, detections, completed, repeated>>
    /\ UNCHANGED notEnrich

\* an image file is replaced on disk by another picture: a new item
ChangeImage ==
    /\ imagesVer < MaxChanges
    /\ \E i \in 1..Len(images), img \in NewImages :
          /\ img # images[i]
          /\ images' = [images EXCEPT ![i] = img]
          /\ completed' = completed \ {i}
    /\ imagesVer' = imagesVer + 1
    /\ UNCHANGED <<detections, enrich, repeated>>
    /\ UNCHANGED notEnrich

\* the files of the walk whose name ends with .png, .jpg or .jpeg (line 95)
ImageTrees == UNION {[1..n -> ScrapedImages] : n \in 0..MaxImages}

EnrichInit ==
    /\ images \in ImageTrees
    /\ imagesVer = 0
    /\ detections = <<>>
    /\ enrich = IdleEnrich
    /\ completed = {}
    /\ repeated = {}

NoImages ==
    /\ images = <<>>
    /\ imagesVer = 0
    /\ detections = <<>>
    /\ enrich = IdleEnrich
    /\ completed = {}
    /\ repeated = {}

NoFiles ==
    /\ tree = <<>>
    /\ treeVer = 0
    /\ messages = <<>>
    /\ loader = [p \in Procs |-> IdleLoader]
    /\ lastRun = NoRun

EnrichNext ==
    \/ EnrichStart
    \/ SkipImage
    \/ ProcessImage
    \/ EnrichFinish
    \/ ChangeImage

(***************************************************************************)
(* The scripts as subprocesses, and the Dagster job (repo.py)              *)
(***************************************************************************)
Stages == {"scrape", "load", "yolo"}

NotRun == [ran |-> FALSE, connected |-> FALSE, loggedError |-> FALSE, exit |-> 0]

\* main() of load_raw_to_postgres.py and of run_yolo_enrichment.py:
\* get_db_connection logs the OperationalError and returns None, `if conn:`
\* skips the work and main returns.  The exit status is non-zero only when an
\* exception escapes (uncaught): an import that fails, setup_database raising.
DbScriptMain(reachable, uncaught) ==
    [ran |-> TRUE, connected |-> reachable, loggedError |-> ~reachable,
     exit |-> IF uncaught THEN 1 ELSE 0]

\* main() of telegram_scraper.py: scrape_channel catches its exceptions; one
\* that escapes the client's `async with` ends the process with a traceback
ScraperMain(uncaught) ==
    [ran |-> TRUE, connected |-> FALSE, loggedError |-> FALSE,
     exit |-> IF uncaught THEN 1 ELSE 0]

ScriptMain(s, reachable, uncaught) ==
    IF s = "scrape" THEN ScraperMain(uncaught)
    ELSE DbScriptMain(reachable, uncaught)

\* subprocess.run without check=True: the op returns True whatever the status
OpOutcomeUnchecked(exit) == "success"

\* subprocess.run(..., check=True): CalledProcessError on a non-zero status,
\* logged and raised again; otherwise the op returns True
OpOutcome(exit) == IF exit = 0 THEN "success" ELSE "failure"

\* the inputs of the ops in full_telegram_etl_job (lines 132-143)
Upstream(s) ==
    CASE s = "scrape" -> {}
      [] s = "load" -> {"scrape"}
      [] s = "yolo" -> {"load"}

\* daily_telegram_pipeline_schedule launches a run of the job
LaunchRun ==
    /\ jobRun # "started"
    /\ jobRun' = "started"
    /\ ops' = [s \in Stages |-> "pending"]
    /\ proc' = [s \in Stages |-> NotRun]
    /\ started' = <<>>
    /\ dbt' = "none"
    /\ UNCHANGED dbReachable
    /\ UNCHANGED notPipe

\* Dagster starts an op once every op it takes an input from has succeeded
StartOp(s) ==
    /\ jobRun = "started"
    /\ ops[s] = "pending"
    /\ \A u \in Upstream(s) : ops[u] = "success"
    /\ ops' = [ops EXCEPT ![s] = "running"]
    /\ started' = Append(started, s)
    /\ UNCHANGED <<jobRun, proc, dbt, dbReachable>>
    /\ UNCHANGED notPipe

\* the subprocess of the op ends, and the op returns True or raises
CompleteOp(s) ==
    /\ jobRun = "started"
    /\ ops[s] = "running"
    /\ \E uncaught \in BOOLEAN :
          LET result == ScriptMain(s, dbReachable, uncaught)
              outcome == OpOutcome(result.exit)
          IN  /\ proc' = [proc EXCEPT ![s] = result]
              /\ ops' = [ops EXCEPT ![s] = outcome]
              /\ jobRun' = IF outcome = "failure" THEN "failure"
                           ELSE IF s = "yolo" THEN "success"
                           ELSE jobRun
    /\ UNCHANGED <<started, dbt, dbReachable>>
    /\ UNCHANGED notPipe

\* my_dbt_assets is materialised (dbt build) from the UI; no op of the job
\* depends on it
DbtBuild ==
    /\ \E result \in {"success", "failure"} : dbt' = result
    /\ UNCHANGED <<jobRun, ops, proc, started, dbReachable>>
    /\ UNCHANGED notPipe

\* the database goes down or comes back
DbChange ==
    /\ dbReachable' = ~dbReachable
    /\ UNCHANGED <<jobRun, ops, proc, started, dbt>>
    /\ UNCHANGED notPipe

PipeInit ==
    /\ jobRun = "none"
    /\ ops = [s \in Stages |-> "pending"]
    /\ proc = [s \in Stages |-> NotRun]
    /\ started = <<>>
    /\ dbt = "none"
    /\ dbReachable \in BOOLEAN

PipeNext ==
    \/ LaunchRun
    \/ \E s \in Stages : StartOp(s)
    \/ \E s \in Stages : CompleteOp(s)
    \/ DbtBuild
    \/ DbChange

(***************************************************************************)
(* The reporting API (analytics_api/main.py, analytics_api/crud.py)        *)
(***************************************************************************)
\* Text is a sequence of characters.
Space == " "
IsSpace(c) == c = Space

\* lower() / the case folding of ILIKE, on the letters the texts use
LowerChar(c) ==
    CASE c = "P" -> "p" [] c = "I" -> "i" [] c = "L" -> "l"
      [] c = "W" -> "w" [] c = "T" -> "t" [] c = "H" -> "h"
      [] OTHER -> c

Lower(t) == [i \in 1..Len(t) |-> LowerChar(t[i])]

\* t contains q as a substring
Contains(t, q) ==
    \E i \in 0..(Len(t) - Len(q)) : SubSeq(t, i + 1, i + Len(q)) = q

\* message_text ILIKE '%query%'
ILike(t, q) == Contains(Lower(t), Lower(q))

\* regexp_split_to_array(t, '\s+'), from the i-th character on
RECURSIVE SplitFrom(_, _, _, _)
SplitFrom(t, i, cur, out) ==
    IF i > Len(t) THEN Append(out, cur)
    ELSE IF IsSpace(t[i])
    THEN IF i > 1 /\ IsSpace(t[i - 1])
         THEN SplitFrom(t, i + 1, cur, out)
         ELSE SplitFrom(t, i + 1, <<>>, Append(out, cur))
    ELSE SplitFrom(t, i + 1, Append(cur, t[i]), out)

RegexpSplit(t) == SplitFrom(t, 1, <<>>, <<>>)

\* the rows the transform layer can have put into the warehouse
NullText == <<"NULL">>
PillWithPill == <<"P","i","l","l"," ","w","i","t","h"," ","p","i","l","l">>
WithTmeDrug == <<"W","I","T","H"," "," ","t",".","m","e"," ","d","r","u","g">>
PillsAndDrug == <<"p","i","l","l","s"," ","a","n","d"," ","d","r","u","g">>

Message(id, text, channel, date, time) ==
    [message_id |-> id, message_text |-> text, channel_id |-> channel,
     message_posted_at |-> [date |-> date, time |-> time]]

MessagePool ==
    {Message(1, PillWithPill, 7, 1, 1), Message(2, WithTmeDrug, 7, 1, 2),
     Message(3, PillsAndDrug, 8, 2, 1), Message(4, NullText, 7, 2, 1),
     Message(5, PillWithPill, 7, 3, 1)}

Channel(name, id) == [channel_name |-> name, channel_id |-> id]
ChannelPool == {Channel("chA", 7), Channel("chB", 8), Channel("chA", 9)}
ChannelNames == {"chA", "chB", "chC"}

Detection(id, class) == [detection_id |-> id, detected_object_class |-> class]
DetectionPool == {Detection(1, "person"), Detection(2, "person"),
                  Detection(3, "bottle"), Detection(4, "cup")}

Queries == {<<"p","i","l","l">>, <<"W","i","T","h">>, <<>>}

\* a query parameter `limit` of the request: left out, or an integer
Omitted == [given |-> FALSE]
Given(n) == [given |-> TRUE, n |-> n]
LimitParams == {Omitted} \cup {Given(n) : n \in -1..MaxLimit}

\* every sequence of the members of S
Arrangements(S) ==
    {f \in [1..Cardinality(S) -> S] : \A i, j \in 1..Cardinality(S) : f[i] = f[j] => i = j}

Take(rows, n) == SubSeq(rows, 1, IF n < Len(rows) THEN n ELSE Len(rows))

\* the rows a SELECT ... ORDER BY ... LIMIT n can return: S in an order that
\* before, the pairs <<a, b>> the ORDER BY puts a before b, allows, cut to n rows; a negative n is an error of the
\* statement
Results(S, before, n) ==
    IF n < 0 THEN {[error |-> TRUE, rows |-> <<>>]}
    ELSE {[error |-> FALSE, rows |-> Take(f, n)] :
             f \in {g \in Arrangements(S) :
                       \A i, j \in 1..Cardinality(S) : i < j => <<g[j], g[i]>> \notin before}}

Later(a, b) ==
    \/ a.message_posted_at.date > b.message_posted_at.date
    \/ /\ a.message_posted_at.date = b.message_posted_at.date
       /\ a.message_posted_at.time > b.message_posted_at.time

SearchDefaultLimit == 100
ReportDefaultLimit == 10

\* crud.search_messages(db, query, limit)
SearchMessages(query, limit) ==
    LET found == {m \in fct_messages :
                     m.message_text # NullText /\ ILike(m.message_text, query)}
    IN  Results(found, {pair \in found \X found : Later(pair[1], pair[2])}, limit)

\* the words CTE of get_top_products: every token of every text, lower-cased
WordsOf(m) == RegexpSplit(Lower(m.message_text))

Texted == {m \in fct_messages : m.message_text # NullText}
WordPlaces == UNION {{<<m, i>> : i \in 1..Len(WordsOf(m))} : m \in Texted}
AllWords == {WordsOf(pl[1])[pl[2]] : pl \in WordPlaces}

\* COUNT(*) of the group of word w
WordCount(w) == Cardinality({pl \in WordPlaces : WordsOf(pl[1])[pl[2]] = w})

\* a stopword list that leaves "with" out
StopwordsWithoutWith ==
    {<<"a","n","d">>, <<"t","h","e">>, <<"f","o","r">>,
     <<"h","t","t","p">>, <<"h","t","t","p","s">>, <<"t",".","m","e">>}

\* word NOT IN ('and', 'the', 'for', 'with', 'http', 'https', 't.me')
Stopwords ==
    {<<"a","n","d">>, <<"t","h","e">>, <<"f","o","r">>, <<"w","i","t","h">>,
     <<"h","t","t","p">>, <<"h","t","t","p","s">>, <<"t",".","m","e">>}

MoreMentions(a, b) == a.mention_count > b.mention_count

\* crud.get_top_products(db, limit)
GetTopProducts(limit) ==
    LET rows == {[product_name |-> w, mention_count |-> WordCount(w)] :
                    w \in {v \in AllWords : Len(v) > 3 /\ v \notin Stopwords}}
    IN  Results(rows, {pair \in rows \X rows : MoreMentions(pair[1], pair[2])}, limit)

EarlierDate(a, b) == a.post_date < b.post_date

\* crud.get_channel_activity(db, channel_id): no LIMIT
GetChannelActivity(channel_id) ==
    LET of == {m \in fct_messages : m.channel_id = channel_id}
        rows == {[post_date |-> d,
                  post_count |-> Cardinality({m \in of : m.message_posted_at.date = d})] :
                    d \in {m.message_posted_at.date : m \in of}}
    IN  Results(rows, {pair \in rows \X rows : EarlierDate(pair[1], pair[2])},
                Cardinality(rows))

MoreDetections(a, b) == a.detection_count > b.detection_count

\* crud.get_top_detected_objects(db, limit)
GetTopDetectedObjects(limit) ==
    LET rows == {[object_class |-> c,
                  detection_count |->
                      Cardinality({d \in fct_image_detections :
                                      d.detected_object_class = c})] :
                    c \in {d.detected_object_class : d \in fct_image_detections}}
    IN  Results(rows, {pair \in rows \X rows : MoreDetections(pair[1], pair[2])}, limit)

\* crud.get_channel_id_by_name: `result[0] if result else None`, the row being
\* any of the rows with that name (LIMIT 1 without ORDER BY)
GetChannelIdByName(channel_name) ==
    LET rows == {c \in dim_channels : c.channel_name = channel_name}
    IN  IF rows = {} THEN {Null} ELSE {JInt(c.channel_id) : c \in rows}

\* what FastAPI sends for the rows of a query, or for a statement that failed
Reply(result) ==
    IF result.error THEN [status |-> 500, body |-> <<>>, detail |-> <<>>]
    ELSE [status |-> 200, body |-> result.rows, detail |-> <<>>]

\* a handler that answers a miss with an empty report
NotFoundAsEmptyReport(channel_name) == [status |-> 200, body |-> <<>>, detail |-> <<>>]

\* raise HTTPException(status_code=404, detail=f"Channel '{channel_name}' not found.")
NotFound(channel_name) ==
    [status |-> 404, body |-> <<>>,
     detail |-> <<"Channel '", channel_name, "' not found.">>]

\* the limit a handler passes on to crud: the parameter, or its default
LimitOr(param, default) == IF param.given THEN param.n ELSE default

NoRequest == [endpoint |-> "none"]
NoResponse == [status |-> 0, body |-> <<>>, detail |-> <<>>]

\* no request is being served
ApiIdle ==
    /\ request = NoRequest
    /\ response = NoResponse
    /\ executed = {}

\* GET /api/search/messages: the handler declares no limit parameter, FastAPI
\* drops the one of the request, and crud.search_messages runs with its default
SearchForMessages ==
    /\ request = NoRequest
    /\ \E query \in Queries, limit \in LimitParams :
          \E result \in SearchMessages(query, SearchDefaultLimit) :
          /\ request' = [endpoint |-> "search", query |-> query, limit |-> limit]
          /\ response' = Reply(result)
    /\ executed' = {"search_messages"}
    /\ UNCHANGED warehouseVars
    /\ UNCHANGED notApi

\* GET /api/reports/top-products
GetTopProductsReport ==
    /\ request = NoRequest
    /\ \E limit \in LimitParams :
          \E result \in GetTopProducts(LimitOr(limit, ReportDefaultLimit)) :
              /\ request' = [endpoint |-> "top-products", limit |-> limit]
              /\ response' = Reply(result)
    /\ executed' = {"get_top_products"}
    /\ UNCHANGED warehouseVars
    /\ UNCHANGED notApi

\* GET /api/channels/{channel_name}/activity: no limit parameter either
GetChannelActivityReport ==
    /\ request = NoRequest
    /\ \E channel_name \in ChannelNames, limit \in LimitParams :
          \E channel_id \in GetChannelIdByName(channel_name) :
          /\ request' = [endpoint |-> "activity", channel_name |-> channel_name,
                         limit |-> limit]
          /\ IF channel_id = Null
             THEN /\ response' = NotFound(channel_name)
                  /\ executed' = {"get_channel_id_by_name"}
             ELSE /\ \E result \in GetChannelActivity(channel_id.n) :
                        response' = Reply(result)
                  /\ executed' = {"get_channel_id_by_name", "get_channel_activity"}
    /\ UNCHANGED warehouseVars
    /\ UNCHANGED notApi

\* GET /api/reports/top-detected-objects
GetTopObjectsReport ==
    /\ request = NoRequest
    /\ \E limit \in LimitParams :
          \E result \in GetTopDetectedObjects(LimitOr(limit, ReportDefaultLimit)) :
              /\ request' = [endpoint |-> "top-detected-objects", limit |-> limit]
              /\ response' = Reply(result)
    /\ executed' = {"get_top_detected_objects"}
    /\ UNCHANGED warehouseVars
    /\ UNCHANGED notApi

\* get_db: the session of the request is closed once the response is sent
CloseSession ==
    /\ request # NoRequest
    /\ request' = NoRequest
    /\ response' = NoResponse
    /\ executed' = {}
    /\ UNCHANGED warehouseVars
    /\ UNCHANGED notApi

ApiInit ==
    /\ fct_messages \in {S \in SUBSET MessagePool : Cardinality(S) <= MaxMessages}
    /\ dim_channels \in SUBSET ChannelPool
    /\ fct_image_detections \in
          {S \in SUBSET DetectionPool : Cardinality(S) <= MaxDetections}
    /\ ApiIdle

NoWarehouse ==
    /\ fct_messages = {}
    /\ dim_channels = {}
    /\ fct_image_detections = {}
    /\ ApiIdle

ApiNext ==
    \/ SearchForMessages
    \/ GetTopProductsReport
    \/ GetChannelActivityReport
    \/ GetTopObjectsReport
    \/ CloseSession

(***************************************************************************)
(* The scraper (scripts/telegram_scraper.py)                               *)
(***************************************************************************)
TARGET_CHANNELS == <<"chemedapp", "lobelia4cosmetics", "tikvahpharma">>
Channels == SeqRange(TARGET_CHANNELS)

\* the channels main() downloads images for (line 86)
ImageChannels == {"chemedapp", "lobelia4cosmetics", "tikvahpharma"}

\* message.date.strftime('%Y-%m-%d'): two days
Dates == {1, 2}

\* A message of a channel: Telegram numbers the messages of every channel
\* from 1; photo says whether message.media is a MessageMediaPhoto; rev is
\* the revision of the message (an edit on Telegram makes a new one).
Post(id, date, photo, rev) == [id |-> id, date |-> date, photo |-> photo, rev |-> rev]

\* the n messages of a channel, newest first, no message dated before an older one
PostsOf(n) ==
    {f \in [1..n -> [id : 1..n, date : Dates, photo : BOOLEAN, rev : {0}]] :
        /\ \A k \in 1..n : f[k].id = n + 1 - k
        /\ \A j, k \in 1..n : j < k => f[j].date >= f[k].date}

RECURSIVE TotalPosts(_, _)
TotalPosts(f, k) ==
    IF k > Len(TARGET_CHANNELS) THEN 0
    ELSE Len(f[TARGET_CHANNELS[k]]) + TotalPosts(f, k + 1)

Feeds ==
    {f \in [Channels -> UNION {PostsOf(n) : n \in 0..MaxPosts}] :
        TotalPosts(f, 1) <= MaxPosts}

\* os.path.join(MESSAGES_DIR, message_date_str, channel_username, f'{message.id}.json')
MessageJsonPath(channel_username, message) ==
    <<message.date, channel_username, message.id>>

\* os.path.join(IMAGES_DIR, message_date_str, f'{message.id}.jpg')
ImagePath(channel_username, message) == <<message.date, message.id>>

\* json.dump(message.to_dict(), f, ...): the document of the message
MessageDict(channel_username, message) ==
    [t |-> "json", channel |-> channel_username, message |-> message]

\* client.download_media(message.media, file=image_path): the photo of the message
Photo(channel_username, message) ==
    [t |-> "jpg", channel |-> channel_username, id |-> message.id, rev |-> message.rev]

\* a scraper that takes no file for present
ExistsNever(files, path) == FALSE

\* os.path.exists(path)
Exists(files, path) == path \in DOMAIN files

\* the files after path was opened for writing and content written to it
Written(files, path, content) ==
    [q \in DOMAIN files \cup {path} |-> IF q = path THEN content ELSE files[q]]

\* the condition of the image branch (line 86)
HasPhoto(channel_username, message) ==
    channel_username \in ImageChannels /\ message.photo

\* scrape_channel for a channel: not called yet in the run
PendingChannel ==
    [pc |-> "pending", pos |-> 0, messages_scraped_count |-> 0,
     images_downloaded_count |-> 0]

\* scrape_channel has returned: its local variables are gone
FinishedChannel == [PendingChannel EXCEPT !.pc = "finished"]

\* main(): emptyImages says whether the run found no image file on disk,
\* errors whether a scrape_channel of the run has logged an error
ScraperIdle == [pc |-> "idle", emptyImages |-> FALSE, errors |-> FALSE]

\* a main() that starts the scrape of every channel at once (asyncio.gather)
AwaitedAlways(k) == TRUE

\* `for channel in TARGET_CHANNELS: await scrape_channel(client, channel)`:
\* the call for the k-th channel is made when the calls before it have returned
Awaited(k) == \A j \in 1..(k - 1) : scraper[TARGET_CHANNELS[j]].pc = "finished"

\* main(): create_directories and the client (lines 107-114)
ScraperStart ==
    /\ scrapeRun.pc \in {"idle", "done"}
    /\ scrapeRun' = [pc |-> "running", errors |-> FALSE,
                     emptyImages |-> DOMAIN imageFiles = {}]
    /\ scraper' = [c \in Channels |-> PendingChannel]
    /\ UNCHANGED <<feed, feedVer, messageFiles, imageFiles>>
    /\ UNCHANGED notScraper

\* scrape_channel is called for the k-th channel (lines 53-59)
StartChannel(k) ==
    /\ scrapeRun.pc = "running"
    /\ scraper[TARGET_CHANNELS[k]].pc = "pending"
    /\ Awaited(k)
    /\ scraper' = [scraper EXCEPT ![TARGET_CHANNELS[k]] =
                      [PendingChannel EXCEPT !.pc = "running", !.pos = 1]]
    /\ UNCHANGED <<feed, feedVer, messageFiles, imageFiles, scrapeRun>>
    /\ UNCHANGED notScraper

\* one iteration of `async for message in client.iter_messages(...)` (lines 63-98)
ScrapeMessage(channel_username) ==
    /\ scraper[channel_username].pc = "running"
    /\ scraper[channel_username].pos <= Len(feed[channel_username])
    /\ LET me == scraper[channel_username]
           message == feed[channel_username][me.pos]
           message_json_path == MessageJsonPath(channel_username, message)
           image_path == ImagePath(channel_username, message)
           writes == ~Exists(messageFiles, message_json_path)
           downloads == /\ HasPhoto(channel_username, message)
                        /\ ~Exists(imageFiles, image_path)
       IN  /\ messageFiles' =
                 IF writes
                 THEN Written(messageFiles, message_json_path,
                              MessageDict(channel_username, message))
                 ELSE messageFiles
           /\ imageFiles' =
                 IF downloads
                 THEN Written(imageFiles, image_path, Photo(channel_username, message))
                 ELSE imageFiles
           /\ scraper' = [scraper EXCEPT ![channel_username] =
                 [me EXCEPT !.pos = me.pos + 1,
                            !.messages_scraped_count =
                                me.messages_scraped_count + (IF writes THEN 1 ELSE 0),
                            !.images_downloaded_count =
                                me.images_downloaded_count + (IF downloads THEN 1 ELSE 0)]]
    /\ UNCHANGED <<feed, feedVer, scrapeRun>>
    /\ UNCHANGED notScraper

\* a call to Telegram raises (get_entity, iter_messages, download_media):
\* `except Exception` logs the error and scrape_channel returns (lines 100-104)
ChannelFails(channel_username) ==
    /\ scraper[channel_username].pc = "running"
    /\ scraper[channel_username].pos <= Len(feed[channel_username]) + 1
    /\ scraper' = [scraper EXCEPT ![channel_username] = FinishedChannel]
    /\ scrapeRun' = [scrapeRun EXCEPT !.errors = TRUE]
    /\ UNCHANGED <<feed, feedVer, messageFiles, imageFiles>>
    /\ UNCHANGED notScraper

\* the iteration is over: the final log line of scrape_channel (lines 103-104)
FinishChannel(channel_username) ==
    /\ scraper[channel_username].pc = "running"
    /\ scraper[channel_username].pos > Len(feed[channel_username])
    /\ scraper' = [scraper EXCEPT ![channel_username] = FinishedChannel]
    /\ UNCHANGED <<feed, feedVer, messageFiles, imageFiles, scrapeRun>>
    /\ UNCHANGED notScraper

\* the loop over the channels is over and the client is closed (lines 114-118)
ScraperEnd ==
    /\ scrapeRun.pc = "running"
    /\ \A c \in Channels : scraper[c].pc = "finished"
    /\ scrapeRun' = [scrapeRun EXCEPT !.pc = "done"]
    /\ UNCHANGED <<feed, feedVer, messageFiles, imageFiles, scraper>>
    /\ UNCHANGED notScraper

\* a message is edited on Telegram between two runs of the scraper
EditMessage ==
    /\ scrapeRun.pc = "done"
    /\ feedVer < MaxChanges
    /\ \E c \in Channels : \E k \in 1..Len(feed[c]) :
          feed' = [feed EXCEPT ![c][k].rev = feed[c][k].rev + 1]
    /\ feedVer' = feedVer + 1
    /\ UNCHANGED <<messageFiles, imageFiles, scraper, scrapeRun>>
    /\ UNCHANGED notScraper

NoScrapedFiles ==
    /\ messageFiles = <<>>
    /\ imageFiles = <<>>
    /\ scraper = [c \in Channels |-> PendingChannel]
    /\ scrapeRun = ScraperIdle
    /\ feedVer = 0

ScraperInit ==
    /\ feed \in Feeds
    /\ NoScrapedFiles

NoScraper ==
    /\ feed = [c \in Channels |-> <<>>]
    /\ NoScrapedFiles

ScraperNext ==
    \/ ScraperStart
    \/ \E k \in 1..Len(TARGET_CHANNELS) : StartChannel(k)
    \/ \E c \in Channels : ScrapeMessage(c)
    \/ \E c \in Channels : ChannelFails(c)
    \/ \E c \in Channels : FinishChannel(c)
    \/ ScraperEnd
    \/ EditMessage

(***************************************************************************)
(* Specifications                                                          *)
(***************************************************************************)
InitLoader ==
    LoaderInit /\ NoImages /\ PipeInit /\ dbReachable /\ NoWarehouse /\ NoScraper

SpecLoader == InitLoader /\ [][LoaderNext]_vars

SpecLoaderConc == InitLoader /\ [][ConcNext]_vars

InitEnrich ==
    EnrichInit /\ NoFiles /\ PipeInit /\ dbReachable /\ NoWarehouse /\ NoScraper

SpecEnrich == InitEnrich /\ [][EnrichNext]_vars

\* Loader runs and enrichment runs in any order.  The loader reads and writes
\* only the message tree and raw.messages, the enrichment only the image tree
\* and image_detections, so the runs of each are explored with the other
\* tree empty, the message tree holding fewer than MaxFiles files.
StoreInit == (InitLoader /\ Len(tree) < MaxFiles) \/ InitEnrich

StoreNext ==
    \/ images = <<>> /\ LoaderNext
    \/ tree = <<>> /\ EnrichNext

SpecStore == StoreInit /\ [][StoreNext]_vars

InitPipe == PipeInit /\ NoFiles /\ NoImages /\ NoWarehouse /\ NoScraper

SpecPipeline == InitPipe /\ [][PipeNext]_vars

InitApi == ApiInit /\ NoFiles /\ NoImages /\ PipeInit /\ dbReachable /\ NoScraper

SpecApi == InitApi /\ [][ApiNext]_vars

InitScraper ==
    ScraperInit /\ NoFiles /\ NoImages /\ PipeInit /\ dbReachable /\ NoWarehouse

SpecScraper == InitScraper /\ [][ScraperNext]_vars

(***************************************************************************)
(* Claims about the loader                                                 *)
(***************************************************************************)
GoodFiles == {i \in 1..Len(tree) : tree[i].kind = "good"}
MalformedFiles == {i \in 1..Len(tree) : tree[i].kind = "malformed"}

\* C1: a run that started after an earlier run committed, over a tree that was
\* not changed since that earlier run started, ends with loaded_count = 0 and
\* the table as it found it, and has counted as skipped every file the earlier
\* run stored.
C1_SecondRunLoadsNothing ==
    \A p \in Procs :
        (/\ loader[p].pc = "done"
         /\ loader[p].base # NoRun
         /\ loader[p].base.ver = treeVer)
        => /\ loader[p].loaded_count = 0
           /\ messages = loader[p].startTable
           /\ loader[p].base.stored \subseteq loader[p].skippedFiles

C1_Witness ==
    \E p \in Procs :
        /\ loader[p].pc = "done"
        /\ loader[p].base # NoRun
        /\ loader[p].base.ver = treeVer
        /\ Cardinality(loader[p].base.stored) >= 2
        /\ loader[p].skipped_count >= 2

\* C2: a run that found raw.messages empty and walked a tree of N good files
\* and exactly one malformed file ends with N rows stored, loaded_count = N,
\* exactly one error logged (for the malformed file) and its commit in effect.
C2_Precondition(p) ==
    /\ loader[p].pc = "done"
    /\ loader[p].startTable = <<>>
    /\ loader[p].startVer = treeVer
    /\ Cardinality(MalformedFiles) = 1
    /\ GoodFiles \cup MalformedFiles = 1..Len(tree)

C2_OneMalformedFileIsIsolated ==
    \A p \in Procs :
        C2_Precondition(p)
        => /\ Len(messages) = Cardinality(GoodFiles)
           /\ Paths(messages) = GoodFiles
           /\ loader[p].loaded_count = Cardinality(GoodFiles)
           /\ SeqRange(loader[p].errorLog) = MalformedFiles
           /\ Len(loader[p].errorLog) = 1
           /\ loader[p].committed

C2_Witness ==
    \E p \in Procs :
        /\ C2_Precondition(p)
        /\ Cardinality(GoodFiles) >= 2
        /\ tree[1].kind = "malformed"

\* what one run alone stores from the tree into an empty table, and what it logs
TypeErrorAt(i) ==
    /\ ~JsonDecodeError(tree[i])
    /\ ~NoMessageId(DataGetId(tree[i]))
    /\ ColumnTypeError(Row(DataGetId(tree[i]), DataGetChannelId(tree[i]), tree[i], i))

SoloAborts == \E i \in 1..Len(tree) : TypeErrorAt(i)

SoloRows ==
    IF SoloAborts THEN {}
    ELSE {Row(DataGetId(tree[i]), DataGetChannelId(tree[i]), tree[i], i) :
             i \in {j \in 1..Len(tree) :
                       ~JsonDecodeError(tree[j]) /\ ~NoMessageId(DataGetId(tree[j]))}}

SoloErrors ==
    {i \in 1..Len(tree) :
        \/ JsonDecodeError(tree[i])
        \/ /\ ~NoMessageId(DataGetId(tree[i]))
           /\ \E j \in 1..i : TypeErrorAt(j)}

\* C9: with two loader processes over one tree, the table never holds two rows
\* of one file; once a run has finished and no run is under way the table holds
\* exactly the rows of a single run; and every finished run has logged exactly
\* the errors a run alone logs.
C9_ConcurrentRunsIdempotent ==
    /\ Cardinality(Paths(messages)) = Len(messages)
    /\ \A p \in Procs :
          loader[p].pc = "done"
          => /\ SeqRange(loader[p].errorLog) = SoloErrors
             /\ Len(loader[p].errorLog) = Cardinality(SoloErrors)
             /\ loader[p].committed = ~SoloAborts
    /\ ((\E p \in Procs : loader[p].pc = "done")
        /\ (\A p \in Procs : loader[p].pc # "walk"))
       => SeqRange(messages) = SoloRows

\* both runs were under way at once: the second started on an empty table and
\* yet skipped files, which the first had stored
C9_Witness ==
    /\ loader[1].pc = "done" /\ loader[2].pc = "done"
    /\ Cardinality(loader[1].insertedFiles) >= 2
    /\ loader[2].startTable = <<>>
    /\ Cardinality(loader[2].skippedFiles) >= 2
    /\ Len(messages) >= 2

\* the files whose own iteration raises: json.load, or the INSERT statement
RaisingFiles == {i \in 1..Len(tree) : JsonDecodeError(tree[i]) \/ TypeErrorAt(i)}

\* C12: a finished run over a tree that did not change since the run started
\* has logged every file whose processing raised (json.load or the INSERT
\* statement), has walked the whole tree, and its commit has left every other
\* file with valid JSON and a message id stored in raw.messages.
C12_AnyFailureIsIsolated ==
    \A p \in Procs :
        (/\ loader[p].pc = "done"
         /\ loader[p].startVer = treeVer
         /\ RaisingFiles # {})
        => /\ RaisingFiles \subseteq SeqRange(loader[p].errorLog)
           /\ loader[p].idx = Len(tree) + 1
           /\ GoodFiles \subseteq Paths(messages)

\* the document is JSON and holds no message identifier: 'id' absent or null
MissingId(doc) == ~JsonDecodeError(doc) /\ DataGetId(doc) = Null

\* the document is JSON and holds a message identifier
CarriesId(doc) == ~JsonDecodeError(doc) /\ DataGetId(doc) # Null

\* C14: an iteration of the walk over a file without a message identifier logs
\* a warning naming the file, inserts no row, changes neither loaded_count nor
\* skipped_count and leaves the walk going; an iteration over a file that
\* carries a message identifier logs no such warning.
C14_MissingIdIsSkipped ==
    [][(loader[1].pc = "walk" /\ loader'[1].idx = loader[1].idx + 1)
       => LET doc == tree[loader[1].idx] IN
          /\ MissingId(doc)
             => /\ loader'[1].warnLog = Append(loader[1].warnLog, loader[1].idx)
                /\ loader'[1].pending = loader[1].pending
                /\ loader'[1].loaded_count = loader[1].loaded_count
                /\ loader'[1].skipped_count = loader[1].skipped_count
                /\ loader'[1].pc = "walk"
          /\ CarriesId(doc) => loader'[1].warnLog = loader[1].warnLog]_vars

(***************************************************************************)
(* Claims about the enrichment and about both tables                       *)
(***************************************************************************)
\* C6: no image whose processing ended in a commit in an earlier run, and
\* which was not replaced on disk since, is handed to the model again.
C6_NeverHandedToModelAgain == repeated = {}

\* C13: an iteration of the enrichment walk that ends in the except block
\* (the error log grows by the image) leaves image_detections as it was, with
\* no row of that image in it and with every row committed earlier in the run,
\* and moves the walk on to the next file.
C13_FailedImageIsRolledBack ==
    [][Len(enrich'.errorLog) > Len(enrich.errorLog)
       => /\ enrich'.errorLog = Append(enrich.errorLog, enrich.idx)
          /\ detections' = detections
          /\ \A r \in SeqRange(detections') : r.image_path # enrich.idx
          /\ enrich'.pc = "walk"
          /\ enrich'.idx = enrich.idx + 1]_vars

\* the first image was stored, the second failed on its second INSERT after
\* its first had succeeded, and the run went on to its end
C13_Witness ==
    /\ enrich.pc = "done"
    /\ Len(images) = 2
    /\ images[1].kind = "one" /\ images[2].kind = "nanbox"
    /\ enrich.errorLog = <<2>>
    /\ enrich.new_detections_count = 2
    /\ Len(detections) = 1
    /\ detections[1].image_path = 1

\* the first image failed and the walk went on to store the second
C13_WitnessWalkGoesOn ==
    /\ enrich.pc = "done"
    /\ Len(images) = 2
    /\ images[1].kind \in {"text", "corrupt", "nanbox"}
    /\ enrich.errorLog = <<1>>
    /\ detections # <<>>
    /\ \A i \in 1..Len(detections) : detections[i].image_path = 2

Prefix(s, t) == Len(s) <= Len(t) /\ SubSeq(t, 1, Len(s)) = s

\* C8: every step keeps every committed row of raw.messages and of
\* raw_enrichment.image_detections, with the values it was committed with.
C8_RowsAreKept ==
    [][Prefix(messages, messages') /\ Prefix(detections, detections')]_vars

\* a run that started after a file was rewritten has left the row of that file
\* with the document it was first loaded with
C8_Witness ==
    /\ loader[1].pc = "done"
    /\ loader[1].startVer = treeVer
    /\ loader[1].committed
    /\ \E i \in 1..Len(messages) :
          /\ tree[messages[i].file_path].kind = "good"
          /\ messages[i].raw_data # tree[messages[i].file_path]
          /\ messages[i].file_path \in loader[1].skippedFiles

(***************************************************************************)
(* Claims about the job and the scripts' exit status                       *)
(***************************************************************************)
\* C3: the load op has started only if the scrape subprocess ended with
\* status 0, the enrichment op only if the load subprocess ended with status
\* 0; an op whose subprocess ended with another status has failed, the run is
\* a failure, and no op downstream of it has started.
C3_SequentialGating ==
    /\ ops["load"] # "pending" => (proc["scrape"].ran /\ proc["scrape"].exit = 0)
    /\ ops["yolo"] # "pending" => (proc["load"].ran /\ proc["load"].exit = 0)
    /\ \A s \in Stages :
          (proc[s].ran /\ proc[s].exit # 0)
          => /\ ops[s] = "failure"
             /\ jobRun = "failure"
             /\ \A d \in Stages : s \in Upstream(d) => ops[d] = "pending"
             /\ \A d \in Stages :
                   (\E m \in Stages : s \in Upstream(m) /\ m \in Upstream(d))
                   => ops[d] = "pending"

C3_Witness ==
    /\ ops["scrape"] = "success"
    /\ proc["load"].ran /\ proc["load"].exit # 0
    /\ jobRun = "failure"
    /\ started = <<"scrape", "load">>

\* C4: a loader or enrichment subprocess that could not connect to the
\* database has logged the failure and ended with a non-zero status, and its
\* op has failed.
C4_NoConnectionExitsNonZero ==
    \A s \in {"load", "yolo"} :
        (proc[s].ran /\ ~proc[s].connected)
        => /\ proc[s].loggedError
           /\ proc[s].exit # 0
           /\ ops[s] = "failure"

\* C5: the ops of a run start in the order scrape, load, enrichment, and the
\* enrichment op has started only if a dbt build has succeeded since the run
\* was launched.
C5_EnrichmentAfterDbtBuild ==
    /\ \E n \in 0..3 : started = SubSeq(<<"scrape", "load", "yolo">>, 1, n)
    /\ ops["yolo"] # "pending" => dbt = "success"

(***************************************************************************)
(* Claims about the reporting API                                          *)
(***************************************************************************)
KnownNames == {c.channel_name : c \in dim_channels}

\* C7: the answer to an activity request for a name that is in no row of
\* dim_channels is a 404 whose detail holds the name, and the activity query
\* was not run; the answer for a name that is in a row is a 200 with the
\* activity list of a channel of that name.
C7_NotFoundContract ==
    request.endpoint = "activity"
    => IF request.channel_name \notin KnownNames
       THEN /\ response.status = 404
            /\ request.channel_name \in SeqRange(response.detail)
            /\ "get_channel_activity" \notin executed
       ELSE /\ response.status = 200
            /\ \E c \in dim_channels :
                  /\ c.channel_name = request.channel_name
                  /\ [error |-> FALSE, rows |-> response.body]
                        \in GetChannelActivity(c.channel_id)

C7_Witness ==
    /\ request.endpoint = "activity"
    /\ request.channel_name = "chC"
    /\ response.status = 404
    /\ dim_channels # {}
    /\ \E m \in fct_messages : TRUE

\* a known channel without a message: an empty list, not a 404
C7_WitnessEmptyReport ==
    /\ request.endpoint = "activity"
    /\ request.channel_name \in KnownNames
    /\ response.status = 200
    /\ response.body = <<>>

\* C10: the answer of each of the four reports to a request that carries
\* limit = L, L not negative, holds at most L rows.
C10_EveryReportHonoursLimit ==
    (/\ request.endpoint \in {"search", "top-products", "activity", "top-detected-objects"}
     /\ request.limit.given
     /\ request.limit.n >= 0
     /\ response.status = 200)
    => Len(response.body) <= request.limit.n

\* the stopword list of the report, as the specification gives it
FixedStopwordList ==
    {<<"a","n","d">>, <<"t","h","e">>, <<"f","o","r">>, <<"w","i","t","h">>,
     <<"h","t","t","p">>, <<"h","t","t","p","s">>, <<"t",".","m","e">>}

\* the whitespace-delimited tokens of a text: the places <<i, j>> of its
\* maximal runs of characters that are not whitespace
TokenPlaces(t) ==
    {pl \in (1..Len(t)) \X (1..Len(t)) :
        /\ pl[1] <= pl[2]
        /\ \A k \in pl[1]..pl[2] : ~IsSpace(t[k])
        /\ pl[1] = 1 \/ IsSpace(t[pl[1] - 1])
        /\ pl[2] = Len(t) \/ IsSpace(t[pl[2] + 1])}

\* the number of tokens of the stored texts that are w once lower-cased
Occurrences(w) ==
    Cardinality(UNION {{<<m, pl>> : pl \in {q \in TokenPlaces(m.message_text) :
                                      Lower(SubSeq(m.message_text, q[1], q[2])) = w}} :
                          m \in {n \in fct_messages : n.message_text # NullText}})

\* the lower-cased tokens that are longer than 3 and not in the stopword list
Countable ==
    {w \in UNION {{Lower(SubSeq(m.message_text, pl[1], pl[2])) :
                      pl \in TokenPlaces(m.message_text)} :
                  m \in {n \in fct_messages : n.message_text # NullText}} :
        Len(w) > 3 /\ w \notin FixedStopwordList}

\* C11: no row of a top-products answer names a word of length 3 or less or a
\* word that is, lower-cased, in the stopword list; every row carries the exact
\* number of occurrences of its word among the whitespace-delimited lower-cased
\* tokens of the stored texts; a word has at most one row; and a countable
\* token is left out only when LIMIT cut the answer.
C11_StopwordAndLengthFilter ==
    (request.endpoint = "top-products" /\ response.status = 200)
    => LET body == response.body IN
       /\ \A i \in 1..Len(body) :
             /\ Len(body[i].product_name) > 3
             /\ Lower(body[i].product_name) \notin FixedStopwordList
             /\ body[i].mention_count = Occurrences(body[i].product_name)
             /\ body[i].mention_count > 0
       /\ \A i, j \in 1..Len(body) :
             body[i].product_name = body[j].product_name => i = j
       /\ \/ Countable = {body[i].product_name : i \in 1..Len(body)}
          \/ Len(body) = LimitOr(request.limit, ReportDefaultLimit)

\* two texts with an upper-case stopword, "t.me" and a run of two spaces:
\* "pill" is counted twice, "drug" once, and nothing else is reported
C11_Witness ==
    /\ request.endpoint = "top-products"
    /\ response.status = 200
    /\ fct_messages = {Message(1, PillWithPill, 7, 1, 1), Message(2, WithTmeDrug, 7, 1, 2)}
    /\ response.body = <<[product_name |-> <<"p","i","l","l">>, mention_count |-> 2],
                         [product_name |-> <<"d","r","u","g">>, mention_count |-> 1]>>

(***************************************************************************)
(* Claims about the scraper                                                *)
(***************************************************************************)
\* the files of `files` that a step has created
Created(files, filesAfter) == DOMAIN filesAfter \ DOMAIN files

Running(state) == {c \in Channels : state[c].pc = "running"}

\* C15: no step changes the content of a message file or of an image file that
\* is on disk; an iteration of scrape_channel raises its two counters by the
\* number of files it has created and by no more; and at no time is
\* scrape_channel under way for two channels.
C15_ExistingFilesAreKept ==
    [][/\ \A path \in DOMAIN messageFiles :
             path \in DOMAIN messageFiles' /\ messageFiles'[path] = messageFiles[path]
       /\ \A path \in DOMAIN imageFiles :
             path \in DOMAIN imageFiles' /\ imageFiles'[path] = imageFiles[path]
       /\ \A c \in Channels :
             (scraper[c].pc = "running" /\ scraper'[c].pc = "running")
             => /\ scraper'[c].messages_scraped_count =
                      scraper[c].messages_scraped_count
                         + Cardinality(Created(messageFiles, messageFiles'))
                /\ scraper'[c].images_downloaded_count =
                      scraper[c].images_downloaded_count
                         + Cardinality(Created(imageFiles, imageFiles'))
       /\ Cardinality(Running(scraper)) <= 1
       /\ Cardinality(Running(scraper')) <= 1]_vars

\* a later run has gone over a photo message that was edited after an earlier
\* run stored it: both files hold the earlier revision, both counters are 0
C15_Witness ==
    \E c \in Channels :
        /\ scraper[c].pc = "running"
        /\ scraper[c].pos = 2
        /\ feed[c][1].photo
        /\ feed[c][1].rev = 1
        /\ MessageJsonPath(c, feed[c][1]) \in DOMAIN messageFiles
        /\ ImagePath(c, feed[c][1]) \in DOMAIN imageFiles
        /\ messageFiles[MessageJsonPath(c, feed[c][1])] =
              MessageDict(c, [feed[c][1] EXCEPT !.rev = 0])
        /\ imageFiles[ImagePath(c, feed[c][1])] = Photo(c, [feed[c][1] EXCEPT !.rev = 0])
        /\ scraper[c].messages_scraped_count = 0
        /\ scraper[c].images_downloaded_count = 0

\* the photo messages of the target channels, as <<channel, place in the feed>>
PhotoMessages ==
    {pm \in Channels \X (1..MaxPosts) : pm[2] <= Len(feed[pm[1]]) /\ feed[pm[1]][pm[2]].photo}

\* C16: when a run that found the image tree empty has ended without a logged
\* error, the file at the image path of every photo message holds the photo of
\* that message, and no two photo messages have the same image path.
C16_OneImageFilePerPhotoMessage ==
    (scrapeRun.pc = "done" /\ scrapeRun.emptyImages /\ ~scrapeRun.errors)
    => /\ \A pm \in PhotoMessages :
             LET image_path == ImagePath(pm[1], feed[pm[1]][pm[2]])
             IN  /\ image_path \in DOMAIN imageFiles
                 /\ imageFiles[image_path].channel = pm[1]
                 /\ imageFiles[image_path].id = feed[pm[1]][pm[2]].id
       /\ \A pm, qm \in PhotoMessages :
             pm # qm => ImagePath(pm[1], feed[pm[1]][pm[2]])
                           # ImagePath(qm[1], feed[qm[1]][qm[2]])

====
